---- MODULE Spec2Model ----
(***************************************************************************)
(* Aether Quant: tick validation, window aggregation, direction labelling  *)
(* and the stream source controller.                                       *)
(*                                                                         *)
(* Three programs of the repository are modelled over one state vector:    *)
(*   - the streaming App (src/App.tsx lines 19-482) together with the      *)
(*     TradierService it calls (src/unnamed/part_003): specification Spec; *)
(*   - the window chunking of the polling App's fetchData                  *)
(*     (src/App.tsx lines 555-661 and src/unnamed/part_005 lines 89-216):  *)
(*     specification SpecBatch;                                            *)
(*   - calculateWindowLabel as a pure function: specification SpecCalc.    *)
(*                                                                         *)
(* Numbers.  Prices are integers in units of half a cent (1 = $0.005), so  *)
(* that the midpoint (bid+ask)/2 of a quote given in whole cents is an     *)
(* integer.  Means and ratios are exact rationals [num, den] in lowest     *)
(* terms with den > 0; a division by zero gives den = 0 with num = 1       *)
(* (+Infinity), -1 (-Infinity) or 0 (NaN), as IEEE-754 division does.      *)
(* Floating-point rounding is not modelled.                                *)
(*                                                                         *)
(* React.  A handler, the re-render it causes and the effects of that      *)
(* render form one action: React commits the render and flushes its        *)
(* effects before the next timer or socket event is handled, so            *)
(* handleNewTickRef.current always closes over the committed               *)
(* lastProcessedMid.                                                       *)
(***************************************************************************)
EXTENDS Integers, Sequences, FiniteSets, TLC

(* ------------------------------ bounds --------------------------------- *)

\* ticks a session (the time between two resets of the pipeline) takes in
MaxTicks == 10
\* instrument switches in a run
MaxSwitches == 1

(* ------------------------- program constants --------------------------- *)

\* 0.01 dollars, in half-cent units
Cent == 2
\* newBuffer.length >= 5
WindowSize == 5
\* hftFeed.slice(i, i + 4)
BatchWindowSize == 4
\* [window, ...wh].slice(0, 20)
HistoryCap == 20
\* private alpha = 1e-5, as 1 / AlphaInv
AlphaInv == 100000
\* spread > mid * 0.25, as spread * SpreadFactor > mid
SpreadFactor == 4

Symbols == {"SPY", "QQQ"}
FirstSymbol == "SPY"

(* --------------------------- exact rationals --------------------------- *)

Abs(x) == IF x < 0 THEN -x ELSE x

Sign(x) == IF x > 0 THEN 1 ELSE IF x < 0 THEN -1 ELSE 0

RECURSIVE GCD(_, _)
GCD(a, b) == IF b = 0 THEN a ELSE GCD(b, a % b)

\* n / d as a number of the program: lowest terms, or an IEEE special
Rat(n, d) ==
  IF d = 0 THEN [num |-> Sign(n), den |-> 0]
  ELSE LET g == GCD(Abs(n), Abs(d))
       IN  [num |-> Sign(d) * Sign(n) * (Abs(n) \div g), den |-> Abs(d) \div g]

IntRat(n) == [num |-> n, den |-> 1]

\* a / b for finite a and b
RatDiv(a, b) == Rat(a.num * b.den, a.den * b.num)

\* JavaScript truthiness of a number: neither 0 nor NaN
Truthy(r) == r.num # 0

(* ------------------------------- ticks --------------------------------- *)

\* a mockTick whose ask is two cents above the price
MockTickLopsided(newPrice, n) ==
  [bid |-> newPrice - Cent, ask |-> newPrice + 2 * Cent, last |-> newPrice,
   mid |-> newPrice, spread |-> 2 * Cent,
   volume |-> 100, bidVolume |-> 50, askVolume |-> 50, seq |-> n]

\* mockTick of the simulation timer; seq stands for the tick's identity
\* (its arrival number)
MockTick(newPrice, n) ==
  [bid |-> newPrice - Cent, ask |-> newPrice + Cent, last |-> newPrice,
   mid |-> newPrice, spread |-> 2 * Cent,
   volume |-> 100, bidVolume |-> 50, askVolume |-> 50, seq |-> n]

\* parseFloat of a loosely typed field: a number ("num"), a numeric string
\* ("str"), a string that starts with a number and goes on with other
\* characters, such as "100.00x" ("prefixed"; parseFloat reads the number
\* and ignores the rest), or anything else (absent, a string with no leading
\* number), which gives NaN
ParseFloat(f) ==
  IF f.k \in {"num", "str", "prefixed"} THEN [nan |-> FALSE, v |-> f.v]
  ELSE [nan |-> TRUE, v |-> 0]

\* parseInt(raw.bidsize || '0'): an absent field is falsy and reads as '0';
\* a string with no leading number is truthy and parses to NaN
ParseSize(f) ==
  IF f.k \in {"num", "str", "prefixed"} THEN [nan |-> FALSE, v |-> f.v]
  ELSE IF f.k = "absent" THEN [nan |-> FALSE, v |-> 0]
  ELSE [nan |-> TRUE, v |-> 0]

Rejected == [rejected |-> TRUE]

\* the rejection test without its bid >= ask
InvalidUnlessCrossed(bid, ask) ==
  \/ bid.nan \/ ask.nan
  \/ bid.v <= 0 \/ ask.v <= 0
  \/ (ask.v - bid.v) * SpreadFactor > (bid.v + ask.v) \div 2

\* the rejection test of cleanAndProcessTick
Invalid(bid, ask) ==
  \/ bid.nan \/ ask.nan
  \/ bid.v <= 0 \/ ask.v <= 0
  \/ bid.v >= ask.v
  \/ (ask.v - bid.v) * SpreadFactor > (bid.v + ask.v) \div 2

\* the volume fields of the tick that are NaN: bidVol, askVol, and their sum
NaNFields(bidVol, askVol) ==
  (IF bidVol.nan THEN {"bidVolume", "volume"} ELSE {})
    \cup (IF askVol.nan THEN {"askVolume", "volume"} ELSE {})

\* nans names the volume fields that are NaN (their number is then 0 here)
cleanAndProcessTick(raw, n) ==
  LET bid    == ParseFloat(raw.bid)
      ask    == ParseFloat(raw.ask)
      last   == ParseFloat(raw.last)
      mid    == (bid.v + ask.v) \div 2
      bidVol == ParseSize(raw.bidsize)
      askVol == ParseSize(raw.asksize)
  IN  IF Invalid(bid, ask) THEN Rejected
      ELSE [rejected |-> FALSE,
            bid |-> bid.v, ask |-> ask.v,
            last |-> IF last.nan \/ last.v = 0 THEN mid ELSE last.v,
            mid |-> mid, spread |-> ask.v - bid.v,
            volume |-> bidVol.v + askVol.v,
            bidVolume |-> bidVol.v,
            askVolume |-> askVol.v,
            nans |-> NaNFields(bidVol, askVol),
            seq |-> n]

\* the Tick handed to handleNewTick (the validator's verdict removed)
AsTick(t) ==
  [bid |-> t.bid, ask |-> t.ask, last |-> t.last, mid |-> t.mid,
   spread |-> t.spread, volume |-> t.volume, bidVolume |-> t.bidVolume,
   askVolume |-> t.askVolume, seq |-> t.seq]

(* ------------------------ calculateWindowLabel ------------------------- *)

RECURSIVE SumMid(_)
SumMid(ts) == IF ts = <<>> THEN 0 ELSE ts[1].mid + SumMid(Tail(ts))

\* the band closed above: ratio >= (1 + this.alpha)
AboveOrOnBand(ratio) ==
  IF ratio.den = 0 THEN ratio.num > 0
  ELSE ratio.num - ratio.den > (ratio.den - 1) \div AlphaInv

\* ratio > (1 + this.alpha)
AboveBand(ratio) ==
  IF ratio.den = 0 THEN ratio.num > 0
  ELSE ratio.num - ratio.den > ratio.den \div AlphaInv

\* ratio < (1 - this.alpha)
BelowBand(ratio) ==
  IF ratio.den = 0 THEN ratio.num < 0
  ELSE ratio.den - ratio.num > ratio.den \div AlphaInv

LabelOf(ratio) ==
  IF AboveBand(ratio) THEN "UPWARDS"
  ELSE IF BelowBand(ratio) THEN "DOWNWARDS"
  ELSE "STATIONARY"

calculateWindowLabel(currentTicks, lastWindowMid) ==
  LET meanMid == Rat(SumMid(currentTicks), Len(currentTicks))
      ratio   == RatDiv(meanMid, lastWindowMid)
  IN  [ticks |-> currentTicks, meanMid |-> meanMid, ratio |-> ratio,
       label |-> LabelOf(ratio)]

(* ------------------ the streaming App: state (Spec) -------------------- *)

VARIABLES
  mounted,           \* the component has mounted (its mount effects ran)
  selectedSymbol,    \* useState(SYMBOLS[0])
  isTradierConnected,
  isSimulating,
  hasGeminiKey,
  marketData,        \* null, or the fields the stream reads and writes
  streamingStatus,
  tickBuffer,
  windowHistory,
  lastProcessedMid,
  tradierRef,        \* tradierRef.current is a TradierService
  wsRef,             \* wsRef.current: Null, or the connection
  simInterval,       \* the interval in simIntervalRef.current is running
  conns,             \* the startStream calls whose connection is pending
                     \* or open: progress and the selectedSymbol their
                     \* closures captured
  fetches,           \* symbols of the fetchData runs in flight
  arrivals,          \* history: ticks handed to handleNewTick since the
                     \* last reset of the pipeline
  bufSrcs,           \* history: the sources that delivered the ticks of
                     \* tickBuffer (the timer, a connection, or Gone)
  bufSyms,           \* history: the instruments those ticks quote
  emitted,           \* history: every window produced since the last
                     \* reset, oldest first, and whether more than one
                     \* source delivered its ticks
  switches           \* history: instrument switches so far

appVars == <<mounted, selectedSymbol, isTradierConnected, isSimulating,
             hasGeminiKey, marketData, streamingStatus, tickBuffer,
             windowHistory, lastProcessedMid, tradierRef, wsRef,
             simInterval, conns, fetches, arrivals, bufSrcs, bufSyms,
             emitted, switches>>

NoData == [present |-> FALSE, symbol |-> FirstSymbol, currentPrice |-> 0]

NoConn == [state |-> "none", sym |-> FirstSymbol]

\* handles for the connections that are pending or open at the same time
\* (a handle is free again once its connection is gone)
ConnIds == {"ws1", "ws2"}

\* connections pending or open among cs
Alive(cs) == Cardinality({c \in ConnIds : cs[c].state # "none"})

\* the timer as a source of ticks, and the source of the ticks whose
\* connection is gone
Timer == "timer"
Gone == "gone"

\* wsRef.current === null
Null == "null"

\* bufSrcs once connection c is gone
Forget(srcs, c) == IF c \in srcs THEN (srcs \ {c}) \cup {Gone} ELSE srcs

AppInit ==
  /\ mounted = FALSE
  /\ selectedSymbol = FirstSymbol
  /\ isTradierConnected = FALSE
  /\ isSimulating = FALSE
  /\ hasGeminiKey = FALSE
  /\ marketData = NoData
  /\ streamingStatus = "IDLE"
  /\ tickBuffer = <<>>
  /\ windowHistory = <<>>
  /\ lastProcessedMid = IntRat(0)
  /\ tradierRef = FALSE
  /\ wsRef = Null
  /\ simInterval = FALSE
  /\ conns = [c \in ConnIds |-> NoConn]
  /\ fetches = {}
  /\ arrivals = 0
  /\ bufSrcs = {}
  /\ bufSyms = {}
  /\ emitted = <<>>
  /\ switches = 0

(* --------------------------- handleNewTick ----------------------------- *)

\* the tick put in front: [tick, ...prev]
NewBufferInFront(prev, tick) == <<tick>> \o prev

\* const newBuffer = [...prev, tick]
NewBuffer(prev, tick) == Append(prev, tick)

\* the test one tick late: newBuffer.length > 5
BufferOverfull(newBuffer) == Len(newBuffer) > WindowSize

\* if (newBuffer.length >= 5)
BufferFull(newBuffer) == Len(newBuffer) >= WindowSize

\* lastProcessedMid || tick.mid
ReferenceMid(lastMid, tick) ==
  IF Truthy(lastMid) THEN lastMid ELSE IntRat(tick.mid)

\* [window, ...wh] without its slice(0, 20)
PushWindowUnsliced(window, wh) == <<window>> \o wh

\* [window, ...wh].slice(0, 20)
PushWindow(window, wh) ==
  LET all == <<window>> \o wh
  IN  SubSeq(all, 1, IF Len(all) < HistoryCap THEN Len(all) ELSE HistoryCap)

\* the updater without its return []
BufferKept(newBuffer) == newBuffer

\* the value the setTickBuffer updater returns
BufferAfter(newBuffer) == IF BufferFull(newBuffer) THEN <<>> ELSE newBuffer

\* handleNewTick(tick), called by source src with a quote of sym
handleNewTick(tick, src, sym) ==
  LET newBuffer == NewBuffer(tickBuffer, tick)
      window    == calculateWindowLabel(newBuffer,
                                        ReferenceMid(lastProcessedMid, tick))
  IN  /\ arrivals' = arrivals + 1
      /\ tickBuffer' = BufferAfter(newBuffer)
      /\ IF BufferFull(newBuffer)
         THEN /\ lastProcessedMid' = window.meanMid
              /\ windowHistory' = PushWindow(window, windowHistory)
              /\ emitted' = Append(emitted,
                     [window |-> window,
                      mixed  |-> Cardinality(bufSrcs \cup {src}) > 1])
              /\ bufSrcs' = {}
              /\ bufSyms' = {}
         ELSE /\ bufSrcs' = bufSrcs \cup {src}
              /\ bufSyms' = bufSyms \cup {sym}
              /\ UNCHANGED <<lastProcessedMid, windowHistory, emitted>>

(* ----------------------- the symbol-change effect ---------------------- *)

\* the effect without its setTickBuffer([])
ResetKeepingBuffer(sym, key) ==
  /\ windowHistory' = <<>>
  /\ lastProcessedMid' = IntRat(0)
  /\ arrivals' = 0
  /\ emitted' = <<>>
  /\ fetches' = IF key THEN fetches \cup {sym} ELSE fetches
  /\ UNCHANGED <<tickBuffer, bufSrcs, bufSyms>>

\* setWindowHistory([]); setTickBuffer([]); setLastProcessedMid(0);
\* if (hasGeminiKey) fetchData()
ResetPipeline(sym, key) ==
  /\ windowHistory' = <<>>
  /\ tickBuffer' = <<>>
  /\ lastProcessedMid' = IntRat(0)
  /\ arrivals' = 0
  /\ emitted' = <<>>
  /\ bufSrcs' = {}
  /\ bufSyms' = {}
  /\ fetches' = IF key THEN fetches \cup {sym} ELSE fetches

(* ------------------------------ startStream --------------------------- *)

\* startStream up to its first await: setStreamingStatus('CONNECTING') and
\* the request of createStreamSession; the closures capture selectedSymbol
StartStream(cs, sym) ==
  LET c == CHOOSE k \in ConnIds : cs[k].state = "none"
  IN  [cs EXCEPT ![c] = [state |-> "session", sym |-> sym]]

\* wsRef.current.close(): the connection delivers nothing any more
CloseWs(cs, c) == [cs EXCEPT ![c] = NoConn]

(* ------------------------------- actions ------------------------------- *)

\* The mount effects: a saved token gives a TradierService and
\* isTradierConnected, else isSimulating; then the stream effect runs for
\* the new flags.
Mount(savedToken) ==
  /\ ~mounted
  /\ mounted' = TRUE
  /\ IF savedToken
     THEN /\ tradierRef' = TRUE
          /\ isTradierConnected' = TRUE
          /\ streamingStatus' = "CONNECTING"
          /\ conns' = StartStream(conns, selectedSymbol)
          /\ UNCHANGED <<isSimulating, simInterval>>
     ELSE /\ isSimulating' = TRUE
          /\ streamingStatus' = "SIMULATING"
          /\ simInterval' = TRUE
          /\ UNCHANGED <<tradierRef, isTradierConnected, conns>>
  /\ UNCHANGED <<selectedSymbol, hasGeminiKey, marketData, tickBuffer,
                 windowHistory, lastProcessedMid, wsRef, fetches, arrivals, bufSrcs, bufSyms,
                 emitted, switches>>

\* checkGeminiKey / handleSelectGeminiKey set hasGeminiKey; the effect on
\* [selectedSymbol, hasGeminiKey] runs again
SetGeminiKey ==
  /\ mounted /\ ~hasGeminiKey
  /\ hasGeminiKey' = TRUE
  /\ ResetPipeline(selectedSymbol, TRUE)
  /\ UNCHANGED <<mounted, selectedSymbol, isTradierConnected, isSimulating,
                 marketData, streamingStatus, tradierRef, wsRef, simInterval,
                 conns, switches>>

\* setSelectedSymbol(symbol) and the effect on [selectedSymbol, hasGeminiKey]
SelectSymbol(s) ==
  /\ mounted /\ s # selectedSymbol /\ switches < MaxSwitches
  /\ selectedSymbol' = s
  /\ switches' = switches + 1
  /\ ResetPipeline(s, hasGeminiKey)
  /\ UNCHANGED <<mounted, isTradierConnected, isSimulating, hasGeminiKey,
                 marketData, streamingStatus, tradierRef, wsRef, simInterval,
                 conns>>

\* fetchData's try block ends: setMarketData for the symbol it captured
FetchOk(sym, price) ==
  /\ sym \in fetches
  /\ fetches' = fetches \ {sym}
  /\ marketData' = [present |-> TRUE, symbol |-> sym, currentPrice |-> price]
  /\ UNCHANGED <<mounted, selectedSymbol, isTradierConnected, isSimulating,
                 hasGeminiKey, streamingStatus, tickBuffer, windowHistory,
                 lastProcessedMid, tradierRef, wsRef, simInterval, conns,
                 arrivals, bufSrcs, bufSyms, emitted, switches>>

\* one firing of the simulation interval
SimTickUpTo(drift, cap) ==
  /\ simInterval /\ marketData.present /\ arrivals < cap
  /\ LET newPrice == marketData.currentPrice + drift
     IN  /\ handleNewTick(MockTick(newPrice, arrivals + 1), Timer, marketData.symbol)
         /\ marketData' = [marketData EXCEPT !.currentPrice = newPrice]
  /\ UNCHANGED <<mounted, selectedSymbol, isTradierConnected, isSimulating,
                 hasGeminiKey, streamingStatus, tradierRef, wsRef,
                 simInterval, conns, fetches, switches>>

SimTick(drift) == SimTickUpTo(drift, MaxTicks)

\* handleSaveToken, and the stream effect when it changed the flags: the
\* effect's cleanup clears the interval and, wsRef.current being null until
\* a session resolves, its body calls startStream a second time
handleSaveToken ==
  LET rerun  == isSimulating \/ ~isTradierConnected
      closed == IF wsRef # Null THEN CloseWs(conns, wsRef) ELSE conns
      first  == StartStream(closed, selectedSymbol)
  IN  /\ mounted
      /\ Alive(closed) + (IF rerun THEN 2 ELSE 1) <= Cardinality(ConnIds)
      /\ bufSrcs' = IF wsRef # Null THEN Forget(bufSrcs, wsRef) ELSE bufSrcs
      /\ tradierRef' = TRUE
      /\ isTradierConnected' = TRUE
      /\ isSimulating' = FALSE
      /\ wsRef' = Null
      /\ streamingStatus' = "CONNECTING"
      /\ conns' = IF rerun THEN StartStream(first, selectedSymbol) ELSE first
      /\ simInterval' = IF rerun THEN FALSE ELSE simInterval
      /\ UNCHANGED <<mounted, selectedSymbol, hasGeminiKey, marketData,
                     tickBuffer, windowHistory, lastProcessedMid, fetches,
                     arrivals, bufSyms, emitted, switches>>

\* createStreamSession resolved: new WebSocket(...); wsRef.current = ws
SessionResolved(c) ==
  /\ conns[c].state = "session"
  /\ conns' = [conns EXCEPT ![c].state = "connecting"]
  /\ wsRef' = c
  /\ UNCHANGED <<mounted, selectedSymbol, isTradierConnected, isSimulating,
                 hasGeminiKey, marketData, streamingStatus, tickBuffer,
                 windowHistory, lastProcessedMid, tradierRef, simInterval,
                 fetches, arrivals, bufSrcs, bufSyms, emitted, switches>>

\* createStreamSession rejected: catch (e) { setStreamingStatus('ERROR') }
SessionFailed(c) ==
  /\ conns[c].state = "session"
  /\ conns' = [conns EXCEPT ![c] = NoConn]
  /\ streamingStatus' = "ERROR"
  /\ UNCHANGED <<mounted, selectedSymbol, isTradierConnected, isSimulating,
                 hasGeminiKey, marketData, tickBuffer, windowHistory,
                 lastProcessedMid, tradierRef, wsRef, simInterval, fetches,
                 arrivals, bufSrcs, bufSyms, emitted, switches>>

\* ws.onopen
WsOpen(c) ==
  /\ conns[c].state = "connecting"
  /\ conns' = [conns EXCEPT ![c].state = "open"]
  /\ streamingStatus' = "LIVE"
  /\ UNCHANGED <<mounted, selectedSymbol, isTradierConnected, isSimulating,
                 hasGeminiKey, marketData, tickBuffer, windowHistory,
                 lastProcessedMid, tradierRef, wsRef, simInterval, fetches,
                 arrivals, bufSrcs, bufSyms, emitted, switches>>

\* raw.type === 'quote' && raw.symbol === selectedSymbol, with the
\* selectedSymbol of the render that called startStream
Forwarded(raw, c) == raw.type = "quote" /\ raw.symbol = conns[c].sym

\* ws.onmessage
WsMessage(c, raw) ==
  /\ conns[c].state = "open" /\ arrivals < MaxTicks
  /\ LET tick == IF tradierRef
                 THEN cleanAndProcessTick(raw, arrivals + 1) ELSE Rejected
     IN  IF Forwarded(raw, c) /\ ~tick.rejected
         THEN /\ handleNewTick(AsTick(tick), c, raw.symbol)
              /\ marketData' = IF marketData.present
                               THEN [marketData EXCEPT !.currentPrice = tick.mid]
                               ELSE marketData
         ELSE UNCHANGED <<arrivals, tickBuffer, lastProcessedMid,
                          windowHistory, emitted, marketData, bufSrcs,
                          bufSyms>>
  /\ UNCHANGED <<mounted, selectedSymbol, isTradierConnected, isSimulating,
                 hasGeminiKey, streamingStatus, tradierRef, wsRef,
                 simInterval, conns, fetches, switches>>

(* ------------------------------ inputs --------------------------------- *)

\* (Math.random() - 0.48) * 0.05 lies in [-0.024, 0.026)
Drifts == {0}

\* searchMeta.currentPrice || 0
FetchedPrices == {0, 20000}

Num(v) == [k |-> "num", v |-> v]
Str(v) == [k |-> "str", v |-> v]
Absent == [k |-> "absent", v |-> 0]
Prefixed(v) == [k |-> "prefixed", v |-> v]
Text == [k |-> "text", v |-> 0]

Quote(sym, bid, ask, last, bidsize, asksize) ==
  [type |-> "quote", symbol |-> sym, bid |-> bid, ask |-> ask, last |-> last,
   bidsize |-> bidsize, asksize |-> asksize]

\* the messages a socket may deliver: a good quote (100.00 / 100.02), a
\* crossed one, and a message that is no quote
RawMessages ==
  UNION {
    { Quote(s, Str(20000), Str(20004), Num(20002), Num(3), Absent),
      Quote(s, Num(20004), Num(20000), Num(20002), Num(3), Num(4)),
      [Quote(s, Num(20000), Num(20004), Num(20002), Num(3), Num(4))
         EXCEPT !.type = "trade"] } : s \in Symbols }

(* ------------- the polling App's fetchData: state (SpecBatch) ---------- *)

VARIABLES
  historyPoints,     \* the price points the fetch returned
  pollStatus,        \* streamingStatus of the polling App
  pollWindowHistory, \* windowHistory of the polling App
  pollRan            \* which fetchData has run: "none", "App", "part_005"

pollVars == <<historyPoints, pollStatus, pollWindowHistory, pollRan>>

PollInit(points) ==
  /\ historyPoints = points
  /\ pollStatus = "IDLE"
  /\ pollWindowHistory = <<>>
  /\ pollRan = "none"

\* Array.prototype.slice(-n)
SliceLast(xs, n) ==
  IF Len(xs) <= n THEN xs ELSE SubSeq(xs, Len(xs) - n + 1, Len(xs))

\* Array.prototype.slice(i, j), 0-based, j exclusive and clipped
Slice(xs, i, j) == SubSeq(xs, i + 1, IF j < Len(xs) THEN j ELSE Len(xs))

Reverse(xs) == [i \in 1..Len(xs) |-> xs[Len(xs) + 1 - i]]

\* the tick App.tsx makes of a price point; seq is its place in hftFeed
HftTick(p, n) ==
  [bid |-> p.price - Cent, ask |-> p.price + Cent, last |-> p.price,
   mid |-> p.price, spread |-> 2 * Cent,
   volume |-> IF p.volume # 0 THEN p.volume ELSE 100,
   bidVolume |-> 50, askVolume |-> 50, seq |-> n]

\* the tick part_005 makes of a price point, for the draws noise = 0,
\* currentSpread = 0.02, tickVolume = p.volume || 2500, buySellSkew = 0.5
HftTickNoisy(p, n) ==
  LET tickVolume == IF p.volume # 0 THEN p.volume ELSE 2500
  IN  [bid |-> p.price - Cent, ask |-> p.price + Cent, last |-> p.price,
       mid |-> p.price, spread |-> 2 * Cent, volume |-> tickVolume,
       bidVolume |-> tickVolume \div 2, askVolume |-> tickVolume \div 2,
       seq |-> n]

\* historyPoints.length === 0 || historyPoints[0].price === 0
Offline(points) == Len(points) = 0 \/ points[1].price = 0

\* the for loop of App.tsx from index i (0-based) on: the windows pushed
RECURSIVE ChunkWindows(_, _)
ChunkWindows(hftFeed, i) ==
  IF i >= Len(hftFeed) THEN <<>>
  ELSE LET chunk == Slice(hftFeed, i, i + BatchWindowSize)
           win   == calculateWindowLabel(chunk, IntRat(chunk[1].mid))
       IN  <<win>> \o ChunkWindows(hftFeed, i + BatchWindowSize)

\* the for loop of part_005 from index i (0-based) on
RECURSIVE ChunkWindowsNoisy(_, _)
ChunkWindowsNoisy(hftFeed, i) ==
  IF i >= Len(hftFeed) THEN <<>>
  ELSE LET chunk   == Slice(hftFeed, i, i + BatchWindowSize)
           lastMid == IF i = 0 THEN chunk[1].mid ELSE hftFeed[i].mid
           win     == calculateWindowLabel(chunk, IntRat(lastMid))
       IN  <<win>> \o ChunkWindowsNoisy(hftFeed, i + BatchWindowSize)

\* fetchData of src/App.tsx, from the history it fetched to setWindowHistory
fetchData ==
  /\ pollRan = "none"
  /\ pollRan' = "App"
  /\ IF Offline(historyPoints)
     THEN /\ pollStatus' = "OFFLINE"
          /\ UNCHANGED pollWindowHistory
     ELSE LET last16  == SliceLast(historyPoints, 16)
              hftFeed == [n \in 1..Len(last16) |-> HftTick(last16[n], n)]
          IN  /\ pollStatus' = "GROUNDED"
              /\ pollWindowHistory' = Reverse(ChunkWindows(hftFeed, 0))
  /\ UNCHANGED historyPoints

\* fetchData of src/unnamed/part_005
fetchDataNoisy ==
  /\ pollRan = "none"
  /\ pollRan' = "part_005"
  /\ IF Offline(historyPoints)
     THEN /\ pollStatus' = "OFFLINE"
          /\ UNCHANGED pollWindowHistory
     ELSE LET hftFeed == [n \in 1..Len(historyPoints) |->
                            HftTickNoisy(historyPoints[n], n)]
          IN  /\ pollStatus' = "GROUNDED"
              /\ pollWindowHistory' = ChunkWindowsNoisy(hftFeed, 0)
  /\ UNCHANGED historyPoints

\* the longest history a fetch returns
MaxHistory == 17

\* price histories: flat at 100.00, rising by a cent a point, and one whose
\* first price did not parse (parseFloat(h.price) || 0)
HistoryOf(len, shape) ==
  [n \in 1..len |->
     [price  |-> IF shape = "flat" THEN 20000
                 ELSE IF shape = "rising" THEN 20000 + Cent * n
                 ELSE IF n = 1 THEN 0 ELSE 20000,
      volume |-> 0]]

Histories ==
  {HistoryOf(len, shape) : len \in 0..MaxHistory,
                           shape \in {"flat", "rising", "unparsed"}}

(* ------------- calculateWindowLabel on its own: state (SpecCalc) ------- *)

VARIABLES
  calcTicks,         \* the argument currentTicks
  calcLastMid,       \* the argument lastWindowMid
  calcResult         \* the TickWindow returned, once the call was made

calcVars == <<calcTicks, calcLastMid, calcResult>>

NoResult == [done |-> FALSE]

CalcInit(ticks, lastMid) ==
  /\ calcTicks = ticks
  /\ calcLastMid = lastMid
  /\ calcResult = NoResult

Calculate ==
  /\ ~calcResult.done
  /\ calcResult' = [done |-> TRUE,
                    window |-> calculateWindowLabel(calcTicks, calcLastMid)]
  /\ UNCHANGED <<calcTicks, calcLastMid>>

\* the longest window handed to calculateWindowLabel
MaxCalcLen == 2

\* the widest spread drawn for a scored window is 10^-1, the narrowest
\* 10^-MaxSpreadDigits
MaxSpreadDigits == 9

\* simulated ticks of a run that fills the window history
MaxFeed == 110

\* the longest window whose features are extracted
MaxFeatLen == 4

\* the largest retries argument withRetry is called with
MaxRetries == 3

\* fetchData runs started in a run of the polling App
MaxRuns == 3

\* the largest volume drawn for a scored window is 5 * 10^MaxVolExp
MaxVolExp == 19

\* mid prices: 100.00 and 100.01, and 500.00 with its neighbours half a
\* cent apart, 500.005 being 500.00 * (1 + alpha) exactly
CalcMids == {20000, 20002, 99999, 100000, 100001, 100002}

\* reference mids: 0, 100.00, 500.00, -500.00 and 500.0025
CalcRefs ==
  {IntRat(0), IntRat(20000), IntRat(100000), IntRat(-100000),
   Rat(200001, 2)}

CalcWindows ==
  UNION {{[n \in 1..len |-> MockTick(m[n], n)] : m \in [1..len -> CalcMids]} :
         len \in 1..MaxCalcLen}

(* ------- the stream source controller with link failures (SpecLink) ---- *)

VARIABLES
  heard              \* history: the last message a socket delivered, and a
                     \* bit that every delivery flips

linkVars == <<heard>>

VARIABLES
  discarded          \* history: how many buffered ticks the last instrument
                     \* switch threw away

switchVars == <<discarded>>

NoMessage == [raw |-> [type |-> "none"], bit |-> FALSE]

LinkInit == heard = NoMessage /\ discarded = 0

\* createStreamSession never settles: fetchTradier of part_003 sets no
\* timeout on its fetch, and startStream none on its await
SessionHangs(c) ==
  /\ conns[c].state = "session"
  /\ conns' = [conns EXCEPT ![c].state = "hung"]
  /\ UNCHANGED <<mounted, selectedSymbol, isTradierConnected, isSimulating,
                 hasGeminiKey, marketData, streamingStatus, tickBuffer,
                 windowHistory, lastProcessedMid, tradierRef, wsRef,
                 simInterval, fetches, arrivals, bufSrcs, bufSyms, emitted,
                 switches>>

\* the WebSocket fails to connect: its error and close events fire, and
\* startStream has set neither onerror nor onclose
WsFails(c) ==
  /\ conns[c].state = "connecting"
  /\ conns' = [conns EXCEPT ![c].state = "failed"]
  /\ UNCHANGED <<mounted, selectedSymbol, isTradierConnected, isSimulating,
                 hasGeminiKey, marketData, streamingStatus, tickBuffer,
                 windowHistory, lastProcessedMid, tradierRef, wsRef,
                 simInterval, fetches, arrivals, bufSrcs, bufSyms, emitted,
                 switches>>

\* an open WebSocket is closed by the peer or the network: its close event
\* fires, and there is no onclose
WsDrops(c) ==
  /\ conns[c].state = "open"
  /\ conns' = [conns EXCEPT ![c].state = "dropped"]
  /\ UNCHANGED <<mounted, selectedSymbol, isTradierConnected, isSimulating,
                 hasGeminiKey, marketData, streamingStatus, tickBuffer,
                 windowHistory, lastProcessedMid, tradierRef, wsRef,
                 simInterval, fetches, arrivals, bufSrcs, bufSyms, emitted,
                 switches>>

(* --------------- cleanAndProcessTick on its own (SpecValidate) --------- *)

VARIABLES
  rawQuote,          \* the argument raw
  verdict            \* what the call returned, once it was made

validateVars == <<rawQuote, verdict>>

NoVerdict == [done |-> FALSE]

ValidateInit(raw) ==
  /\ rawQuote = raw
  /\ verdict = NoVerdict

Validate ==
  /\ ~verdict.done
  /\ verdict' = [done |-> TRUE, tick |-> cleanAndProcessTick(rawQuote, 0)]
  /\ UNCHANGED rawQuote

\* bid and ask fields: numbers from -0.01 to 0.10, the same as strings, a
\* string with trailing characters, a string that is no number, no field.
\* 0.07 / 0.09 has spread = 0.25 * mid exactly, 0.07 / 0.10 a wider one.
PriceFields ==
  {Num(v) : v \in {-2, 0, 14, 18, 20}}
    \cup {Str(18), Prefixed(18), Text, Absent}

\* bidsize and asksize fields: 3 as a number and as a string, a negative
\* number, a string that is no number, no field
SizeFields == {Num(3), Str(3), Num(-3), Text, Absent}

QuoteInputs ==
  {Quote(FirstSymbol, bid, ask, last, bidsize, asksize) :
     bid \in PriceFields, ask \in PriceFields, last \in {Num(16), Absent},
     bidsize \in SizeFields, asksize \in SizeFields}

(* ------- the liquidity score of calculateWindowLabel (SpecLixi) -------- *)

VARIABLES
  lixiTicks,         \* currentTicks of the call: spread and volume of each
  lixiWindow         \* the lixi of the returned window, and who computed it

lixiVars == <<lixiTicks, lixiWindow>>

\* the JavaScript number m * 10^e, m one of 1, 2, 5 (0 is Dec(0, 0))
Dec(m, e) == [m |-> m, e |-> e]

Zero == Dec(0, 0)

\* logarithms are kept in millionths
Micro == 1000000

\* Math.log10 of a positive number
Log10(d) ==
  d.e * Micro + (CASE d.m = 1 -> 0 [] d.m = 2 -> 301030 [] d.m = 5 -> 698970)

\* d || other
OrElse(d, other) == IF d = Zero THEN other ELSE d

\* a + b where one of the two is 0
DecAdd(a, b) == IF a = Zero THEN b ELSE a

\* v10: currentTicks.reduce((acc, t) => acc + t.volume, 0)
RECURSIVE SumVolume(_)
SumVolume(ts) ==
  IF ts = <<>> THEN Zero ELSE DecAdd(SumVolume(Tail(ts)), ts[1].volume)

\* avgSpread: the mean of the spreads, which the windows drawn have equal
AvgSpread(ts) == ts[1].spread

advFactor == Dec(5, 7)

\* const lixi = ... of part_003, weights 0.5 and 0.5
Lixi(ts) ==
  (0 - Log10(OrElse(AvgSpread(ts), Dec(1, -2))))
    + (50 * Log10(OrElse(SumVolume(ts), Dec(1, 0)))) \div 100
    + (50 * Log10(advFactor)) \div 100

\* const lixi = ... of services/tradierService.ts, weights 0.65 and 0.4
LixiWeighted(ts) ==
  (0 - Log10(OrElse(AvgSpread(ts), Dec(1, -2))))
    + (65 * Log10(OrElse(SumVolume(ts), Dec(1, 0)))) \div 100
    + (40 * Log10(advFactor)) \div 100

\* the cap of services/tradierService.ts
LixiCeiling == 15 * Micro

\* Math.min(lixi, 15)
Capped(lixi) == IF lixi < LixiCeiling THEN lixi ELSE LixiCeiling

NotScored == [by |-> "none", lixi |-> 0]

LixiInit(ticks) ==
  /\ lixiTicks = ticks
  /\ lixiWindow = NotScored

\* calculateWindowLabel of part_003 (the service of the streaming App)
ScoreStreamed ==
  /\ lixiWindow = NotScored
  /\ lixiTicks # <<>>
  /\ lixiWindow' = [by |-> "part_003", lixi |-> Lixi(lixiTicks)]
  /\ UNCHANGED lixiTicks

\* calculateWindowLabel of services/tradierService.ts
ScoreCapped ==
  /\ lixiWindow = NotScored
  /\ lixiTicks # <<>>
  /\ lixiWindow' = [by |-> "tradierService",
                    lixi |-> Capped(LixiWeighted(lixiTicks))]
  /\ UNCHANGED lixiTicks

LixiSpreads ==
  {Zero} \cup {Dec(m, 0 - e) : m \in {1, 2, 5}, e \in 1..MaxSpreadDigits}

LixiVolumes ==
  {Zero} \cup {Dec(m, e) : m \in {1, 2, 5}, e \in 0..MaxVolExp}

\* windows of WindowSize ticks of one spread, the first carrying the volume
LixiWindows ==
  {[i \in 1..WindowSize |->
      [spread |-> s, volume |-> IF i = 1 THEN v ELSE Zero]] :
     s \in LixiSpreads, v \in LixiVolumes}

(* -------- the features of calculateWindowLabel (SpecFeatures) ---------- *)

VARIABLES
  featTicks,         \* currentTicks of the call
  featWindow         \* the features of the returned window, and who made it

featVars == <<featTicks, featWindow>>

\* 1 dollar, in half-cent units
Dollar == 100 * Cent

\* const meanMid = currentTicks.reduce(...) / currentTicks.length
MeanMid(ts) == Rat(SumMid(ts), Len(ts))

\* the sum of Math.pow(t.mid - meanMid, 2), times meanMid.den squared
RECURSIVE SumSquares(_, _)
SumSquares(ts, meanMid) ==
  IF ts = <<>> THEN 0
  ELSE (ts[1].mid * meanMid.den - meanMid.num)
         * (ts[1].mid * meanMid.den - meanMid.num)
       + SumSquares(Tail(ts), meanMid)

\* the sum of squares divided by currentTicks.length - 1
VarianceOfSample(ts) ==
  LET meanMid == MeanMid(ts)
  IN  Rat(SumSquares(ts, meanMid), meanMid.den * meanMid.den * (Len(ts) - 1))

\* const variance = ... / currentTicks.length, in half-cents squared
Variance(ts) ==
  LET meanMid == MeanMid(ts)
  IN  Rat(SumSquares(ts, meanMid), meanMid.den * meanMid.den * Len(ts))

\* the largest r in lo..hi with r * r <= x
RECURSIVE Root(_, _, _)
Root(x, lo, hi) ==
  IF lo = hi THEN lo
  ELSE LET mid == (lo + hi + 1) \div 2
       IN  IF mid * mid <= x THEN Root(x, mid, hi) ELSE Root(x, lo, mid - 1)

\* Math.sqrt(variance) in ten-thousandths of a dollar, rounded down: the
\* variance in dollars squared times 10^8 is variance * 2500.  The root of
\* NaN or Infinity is no finite number: -1 here
Sqrt(variance) ==
  IF variance.den = 0 THEN 0 - 1
  ELSE LET whole == variance.num \div variance.den
           rest  == variance.num % variance.den
       IN  Root(whole * 2500 + (rest * 2500) \div variance.den, 0, 40000)

\* const v3 = (last.bid - first.ask) / first.ask of part_003
CrossingReturn(ts) ==
  Rat(ts[Len(ts)].bid - ts[1].ask, ts[1].ask)

\* const v3 = (last.bid - first.ask) / (first.ask || 1) of tradierService.ts
CrossingReturnGuarded(ts) ==
  Rat(ts[Len(ts)].bid - ts[1].ask,
      IF ts[1].ask # 0 THEN ts[1].ask ELSE Dollar)

\* the differences without the leading 0: currentTicks.slice(1).map(...)
DerivativesFromSecond(ts) ==
  [i \in 1..(Len(ts) - 1) |-> ts[i + 1].mid - ts[i].mid]

\* currentTicks.map((t, i) => i > 0 ? t.mid - currentTicks[i-1].mid : 0)
Derivatives(ts) ==
  [i \in 1..Len(ts) |-> IF i > 1 THEN ts[i].mid - ts[i - 1].mid ELSE 0]

NoFeatures == [by |-> "none"]

FeatInit(ticks) ==
  /\ featTicks = ticks
  /\ featWindow = NoFeatures

\* the features of the window calculateWindowLabel of part_003 returns
ExtractStreamed ==
  /\ featWindow = NoFeatures
  /\ featTicks # <<>>
  /\ featWindow' = [by |-> "part_003",
                    meanMid |-> MeanMid(featTicks),
                    variance |-> Variance(featTicks),
                    v9 |-> Sqrt(Variance(featTicks)),
                    v3 |-> CrossingReturn(featTicks),
                    v11_22 |-> Derivatives(featTicks)]
  /\ UNCHANGED featTicks

\* the same of services/tradierService.ts
ExtractGuarded ==
  /\ featWindow = NoFeatures
  /\ featTicks # <<>>
  /\ featWindow' = [by |-> "tradierService",
                    meanMid |-> MeanMid(featTicks),
                    variance |-> Variance(featTicks),
                    v9 |-> Sqrt(Variance(featTicks)),
                    v3 |-> CrossingReturnGuarded(featTicks),
                    v11_22 |-> Derivatives(featTicks)]
  /\ UNCHANGED featTicks

\* mid prices 99.00, 100.00 and 101.00
FeatMids == {100 * Dollar - Dollar, 100 * Dollar, 100 * Dollar + Dollar}

FeatWindows ==
  UNION {{[n \in 1..len |-> MockTick(m[n], n)] : m \in [1..len -> FeatMids]} :
         len \in 1..MaxFeatLen}

(* ------------------------ withRetry (SpecRetry) ------------------------ *)

VARIABLES
  retryBy,           \* whose withRetry runs: "geminiService", "part_001"
  retryArg,          \* the retries argument of the outermost call
  retriesLeft,       \* retries of the call now running
  retryDelay,        \* delay of the call now running, in milliseconds
  attempts,          \* how each invocation of fn settled, in order
  retryPc,           \* "idle", "calling", "sleeping", "returned", "thrown"
  retryResult        \* the value returned or the error thrown to the caller

retryVars == <<retryBy, retryArg, retriesLeft, retryDelay, attempts, retryPc,
               retryResult>>

\* retries = 2 of geminiService.ts
DefaultRetries == 2

\* retries = 3 of part_001
QuotaRetries == 3

\* delay = 2000 of geminiService.ts
DefaultDelay == 2000

\* delay = 4000 of part_001
QuotaDelay == 4000

\* the words an error message may contain (none: the empty set)
Messages ==
  {{"429"}, {"RESOURCE_EXHAUSTED"}, {"resource_exhausted"}, {"Deadline"}, {}}

Statuses == {"RESOURCE_EXHAUSTED", "none"}

\* how an invocation of fn may settle: a value, or an error with a message
\* and a status
Outcomes ==
  {[ok |-> TRUE, msg |-> {}, status |-> "none"]}
    \cup {[ok |-> FALSE, msg |-> m, status |-> st] :
            m \in Messages, st \in Statuses}

\* String.prototype.toLowerCase, word by word
ToLowerCase(msg) ==
  {CASE w = "RESOURCE_EXHAUSTED" -> "resource_exhausted"
     [] w = "Deadline" -> "deadline"
     [] OTHER -> w : w \in msg}

\* the test of geminiService.ts on errorMsg
RetryableMessage(error) ==
  LET errorMsg == ToLowerCase(error.msg)
  IN  "429" \in errorMsg \/ "resource_exhausted" \in errorMsg
        \/ "deadline" \in errorMsg

\* isQuotaError of part_001
IsQuotaError(error) ==
  \/ "429" \in error.msg
  \/ error.status = "RESOURCE_EXHAUSTED"
  \/ "RESOURCE_EXHAUSTED" \in error.msg

\* a test that holds of every error
RetryableAlways(by, error) == TRUE

\* the test on the error caught, of either withRetry
Retryable(by, error) ==
  IF by = "geminiService" THEN RetryableMessage(error) ELSE IsQuotaError(error)

\* retries >= 0
HasRetriesOrNone(retries) == retries >= 0

\* retries > 0
HasRetries(retries) == retries > 0

\* delay * 1.5, delay * 2.5
NextDelay(by, delay) ==
  IF by = "geminiService" THEN (delay * 3) \div 2 ELSE (delay * 5) \div 2

RetryIdle ==
  /\ retryBy = "none" /\ retryArg = 0 /\ retriesLeft = 0 /\ retryDelay = 0
  /\ attempts = <<>> /\ retryPc = "idle" /\ retryResult = <<>>

\* withRetry(fn, retries) was called
RetryInit(by, retries) ==
  /\ retryBy = by /\ retryArg = retries /\ retriesLeft = retries
  /\ retryDelay = (IF by = "geminiService" THEN DefaultDelay ELSE QuotaDelay)
  /\ attempts = <<>> /\ retryPc = "calling" /\ retryResult = <<>>

\* await fn() settles: return, sleep before the recursive call, or throw
FnSettles(outcome) ==
  /\ retryPc = "calling"
  /\ LET settled == outcome @@ [n |-> Len(attempts) + 1]
     IN  /\ attempts' = Append(attempts, settled)
         /\ IF outcome.ok
            THEN retryPc' = "returned" /\ retryResult' = <<settled>>
            ELSE IF HasRetries(retriesLeft) /\ Retryable(retryBy, outcome)
            THEN retryPc' = "sleeping" /\ UNCHANGED retryResult
            ELSE retryPc' = "thrown" /\ retryResult' = <<settled>>
  /\ UNCHANGED <<retryBy, retryArg, retriesLeft, retryDelay>>

\* sleep(delay) resolves: withRetry(fn, retries - 1, delay * ...)
SleepEnds ==
  /\ retryPc = "sleeping"
  /\ retryPc' = "calling"
  /\ retriesLeft' = retriesLeft - 1
  /\ retryDelay' = NextDelay(retryBy, retryDelay)
  /\ UNCHANGED <<retryBy, retryArg, attempts, retryResult>>

(* ------------- fetchData and its fetchLock (SpecFetch) ----------------- *)

VARIABLES
  lockApp,           \* which polling App runs: "App" (App.tsx), "part_005"
  lockSelectedSymbol,\* selectedSymbol of the polling App
  fetchLock,         \* fetchLock.current
  fetchingData,      \* the fetchingData state
  inFlight,          \* the fetchData runs past the lock test and not yet
                     \* through their finally block: [id, symbol]
  runsStarted,       \* how many runs have started
  lockMarketData,    \* marketData.symbol, or Null for marketData = null
  lockHistoryOf      \* the symbol whose windows windowHistory holds, or Null

fetchVars == <<lockApp, lockSelectedSymbol, fetchLock, fetchingData, inFlight,
               runsStarted, lockMarketData, lockHistoryOf>>

FetchInit(app) ==
  /\ lockApp = app
  /\ lockSelectedSymbol = FirstSymbol
  /\ fetchLock = FALSE
  /\ fetchingData = FALSE
  /\ inFlight = {}
  /\ runsStarted = 0
  /\ lockMarketData = Null
  /\ lockHistoryOf = Null

\* if (fetchLock.current && !forceSymbol) return, of App.tsx;
\* if (fetchLock.current) return, of part_005
Locked(app, forced) ==
  IF app = "App" THEN fetchLock /\ ~forced ELSE fetchLock

\* fetchData from its lock test to its first await
enterFetchData(symbol, forced) ==
  IF Locked(lockApp, forced)
  THEN UNCHANGED <<fetchLock, fetchingData, inFlight, runsStarted>>
  ELSE /\ fetchLock' = TRUE
       /\ fetchingData' = TRUE
       /\ inFlight' = inFlight \cup {[id |-> runsStarted + 1, symbol |-> symbol]}
       /\ runsStarted' = runsStarted + 1

\* fetchData() of the countdown timer, the mount effect, handleSaveToken and
\* the refresh button
CallFetchData ==
  /\ runsStarted < MaxRuns
  /\ enterFetchData(lockSelectedSymbol, FALSE)
  /\ UNCHANGED <<lockApp, lockSelectedSymbol, lockMarketData, lockHistoryOf>>

handleSymbolChange(s) ==
  /\ runsStarted < MaxRuns
  /\ lockSelectedSymbol' = s
  /\ lockMarketData' = Null
  /\ lockHistoryOf' = Null
  /\ enterFetchData(s, TRUE)
  /\ UNCHANGED lockApp

\* the awaits of a run resolve: setWindowHistory unless the history is
\* offline, setMarketData, then the finally block
RunResolves(run, offline) ==
  /\ run \in inFlight
  /\ lockHistoryOf' = (IF offline THEN lockHistoryOf ELSE run.symbol)
  /\ lockMarketData' = run.symbol
  /\ fetchingData' = FALSE
  /\ fetchLock' = FALSE
  /\ inFlight' = inFlight \ {run}
  /\ UNCHANGED <<lockApp, lockSelectedSymbol, runsStarted>>

\* fetchMarketDataViaSearch rejects: the catch, then the finally block
RunRejects(run) ==
  /\ run \in inFlight
  /\ fetchingData' = FALSE
  /\ fetchLock' = FALSE
  /\ inFlight' = inFlight \ {run}
  /\ UNCHANGED <<lockApp, lockSelectedSymbol, runsStarted, lockMarketData,
                 lockHistoryOf>>

(* --------------------------- specifications ---------------------------- *)

\* the variables of the specifications of single functions that follow
restVars == <<featVars, retryVars, fetchVars>>

RestInit == FeatInit(<<>>) /\ RetryIdle /\ FetchInit("App")

vars == <<appVars, pollVars, calcVars, validateVars, linkVars, switchVars, lixiVars, restVars>>

\* what the streaming App does not touch
otherVars == <<pollVars, calcVars, validateVars, linkVars, switchVars, lixiVars, restVars>>

\* the streaming App
Init ==
  /\ AppInit
  /\ PollInit(<<>>)
  /\ CalcInit(<<>>, IntRat(0))
  /\ ValidateInit(Quote(FirstSymbol, Absent, Absent, Absent, Absent, Absent))
  /\ LinkInit
  /\ LixiInit(<<>>)
  /\ RestInit

Next ==
  \/ (\E t \in BOOLEAN : Mount(t)) /\ UNCHANGED otherVars
  \/ SetGeminiKey /\ UNCHANGED otherVars
  \/ (\E s \in Symbols : SelectSymbol(s)) /\ UNCHANGED otherVars
  \/ (\E s \in Symbols, p \in FetchedPrices : FetchOk(s, p))
       /\ UNCHANGED otherVars
  \/ (\E d \in Drifts : SimTick(d)) /\ UNCHANGED otherVars
  \/ handleSaveToken /\ UNCHANGED otherVars
  \/ (\E c \in ConnIds : SessionResolved(c)) /\ UNCHANGED otherVars
  \/ (\E c \in ConnIds : SessionFailed(c)) /\ UNCHANGED otherVars
  \/ (\E c \in ConnIds : WsOpen(c)) /\ UNCHANGED otherVars
  \/ (\E c \in ConnIds, raw \in RawMessages : WsMessage(c, raw))
       /\ UNCHANGED otherVars

Spec == Init /\ [][Next]_vars

\* the streaming App on one instrument and without a Gemini key (no fetch,
\* hence no simulated tick), with the failures of the link
NextLink ==
  \/ (\E t \in BOOLEAN : Mount(t)) /\ UNCHANGED otherVars
  \/ handleSaveToken /\ UNCHANGED otherVars
  \/ (\E c \in ConnIds : SessionResolved(c)) /\ UNCHANGED otherVars
  \/ (\E c \in ConnIds : SessionFailed(c)) /\ UNCHANGED otherVars
  \/ (\E c \in ConnIds : SessionHangs(c)) /\ UNCHANGED otherVars
  \/ (\E c \in ConnIds : WsOpen(c)) /\ UNCHANGED otherVars
  \/ (\E c \in ConnIds : WsFails(c)) /\ UNCHANGED otherVars
  \/ (\E c \in ConnIds : WsDrops(c)) /\ UNCHANGED otherVars
  \/ \E c \in ConnIds, raw \in RawMessages :
       /\ WsMessage(c, raw)
       /\ heard' = [raw |-> raw, bit |-> ~heard.bit]
       /\ UNCHANGED <<pollVars, calcVars, validateVars, switchVars, lixiVars, restVars>>

SpecLink == Init /\ [][NextLink]_vars

\* what the runtime is bound to do: settle or abandon a request, open or
\* fail a socket, run the handlers of the events that fire.  Nothing obliges
\* the user to save a token, the peer to send, or the link to drop.
LinkProgress ==
  \E c \in ConnIds :
    \/ SessionResolved(c) \/ SessionFailed(c) \/ SessionHangs(c)
    \/ WsOpen(c) \/ WsFails(c)

SpecLinkFair == SpecLink /\ WF_vars(LinkProgress /\ UNCHANGED otherVars)

\* the streaming App with one source of ticks a run (the timer, or the
\* socket of the token saved before the mount), observed for what an
\* instrument switch throws away
NextSwitch ==
  \/ (\E t \in BOOLEAN : Mount(t)) /\ UNCHANGED otherVars
  \/ SetGeminiKey /\ UNCHANGED otherVars
  \/ /\ \E s \in Symbols : SelectSymbol(s)
     /\ discarded' = Len(tickBuffer)
     /\ UNCHANGED <<pollVars, calcVars, validateVars, heard, lixiVars, restVars>>
  \/ (\E s \in Symbols, p \in FetchedPrices : FetchOk(s, p))
       /\ UNCHANGED otherVars
  \/ (\E d \in Drifts : SimTick(d)) /\ UNCHANGED otherVars
  \/ (\E c \in ConnIds : SessionResolved(c)) /\ UNCHANGED otherVars
  \/ (\E c \in ConnIds : WsOpen(c)) /\ UNCHANGED otherVars
  \/ (\E c \in ConnIds, raw \in RawMessages : WsMessage(c, raw))
       /\ UNCHANGED otherVars

SpecSwitch == Init /\ [][NextSwitch]_vars

\* one run of the polling App's fetchData on a fetched history
\* the streaming App on a long simulated feed
NextHistory ==
  \/ (\E t \in BOOLEAN : Mount(t)) /\ UNCHANGED otherVars
  \/ SetGeminiKey /\ UNCHANGED otherVars
  \/ (\E s \in Symbols, p \in FetchedPrices : FetchOk(s, p))
       /\ UNCHANGED otherVars
  \/ (\E d \in Drifts : SimTickUpTo(d, MaxFeed)) /\ UNCHANGED otherVars

SpecHistory == Init /\ [][NextHistory]_vars

InitBatch ==
  /\ AppInit
  /\ \E points \in Histories : PollInit(points)
  /\ CalcInit(<<>>, IntRat(0))
  /\ ValidateInit(Quote(FirstSymbol, Absent, Absent, Absent, Absent, Absent))
  /\ LinkInit
  /\ LixiInit(<<>>)
  /\ RestInit

NextBatch ==
  \/ fetchData /\ UNCHANGED <<appVars, calcVars, validateVars, linkVars, switchVars, lixiVars, restVars>>
  \/ fetchDataNoisy /\ UNCHANGED <<appVars, calcVars, validateVars, linkVars, switchVars, lixiVars, restVars>>

SpecBatch == InitBatch /\ [][NextBatch]_vars

\* one call of calculateWindowLabel
InitCalc ==
  /\ AppInit
  /\ PollInit(<<>>)
  /\ \E ticks \in CalcWindows, lastMid \in CalcRefs : CalcInit(ticks, lastMid)
  /\ ValidateInit(Quote(FirstSymbol, Absent, Absent, Absent, Absent, Absent))
  /\ LinkInit
  /\ LixiInit(<<>>)
  /\ RestInit

NextCalc == Calculate /\ UNCHANGED <<appVars, pollVars, validateVars, linkVars, switchVars, lixiVars, restVars>>

SpecCalc == InitCalc /\ [][NextCalc]_vars

\* one call of cleanAndProcessTick
InitValidate ==
  /\ AppInit
  /\ PollInit(<<>>)
  /\ CalcInit(<<>>, IntRat(0))
  /\ \E raw \in QuoteInputs : ValidateInit(raw)
  /\ LinkInit
  /\ LixiInit(<<>>)
  /\ RestInit

NextValidate == Validate /\ UNCHANGED <<appVars, pollVars, calcVars, linkVars, switchVars, lixiVars, restVars>>

SpecValidate == InitValidate /\ [][NextValidate]_vars

\* one call of calculateWindowLabel, for its lixi
InitLixi ==
  /\ AppInit
  /\ PollInit(<<>>)
  /\ CalcInit(<<>>, IntRat(0))
  /\ ValidateInit(Quote(FirstSymbol, Absent, Absent, Absent, Absent, Absent))
  /\ LinkInit
  /\ \E ticks \in LixiWindows : LixiInit(ticks)
  /\ RestInit

NextLixi ==
  \/ ScoreStreamed /\ UNCHANGED <<appVars, pollVars, calcVars, validateVars, linkVars, switchVars, restVars>>
  \/ ScoreCapped /\ UNCHANGED <<appVars, pollVars, calcVars, validateVars, linkVars, switchVars, restVars>>

SpecLixi == InitLixi /\ [][NextLixi]_vars

\* one call of calculateWindowLabel, for its features
InitFeatures ==
  /\ AppInit
  /\ PollInit(<<>>)
  /\ CalcInit(<<>>, IntRat(0))
  /\ ValidateInit(Quote(FirstSymbol, Absent, Absent, Absent, Absent, Absent))
  /\ LinkInit
  /\ LixiInit(<<>>)
  /\ \E ticks \in FeatWindows : FeatInit(ticks)
  /\ RetryIdle
  /\ FetchInit("App")

NextFeatures ==
  \/ ExtractStreamed /\ UNCHANGED <<appVars, pollVars, calcVars, validateVars, linkVars, switchVars, lixiVars, retryVars, fetchVars>>
  \/ ExtractGuarded /\ UNCHANGED <<appVars, pollVars, calcVars, validateVars, linkVars, switchVars, lixiVars, retryVars, fetchVars>>

SpecFeatures == InitFeatures /\ [][NextFeatures]_vars

\* one call of withRetry
InitRetry ==
  /\ AppInit
  /\ PollInit(<<>>)
  /\ CalcInit(<<>>, IntRat(0))
  /\ ValidateInit(Quote(FirstSymbol, Absent, Absent, Absent, Absent, Absent))
  /\ LinkInit
  /\ LixiInit(<<>>)
  /\ FeatInit(<<>>)
  /\ \E by \in {"geminiService", "part_001"}, retries \in 0..MaxRetries :
       RetryInit(by, retries)
  /\ FetchInit("App")

NextRetry ==
  \/ (\E outcome \in Outcomes : FnSettles(outcome))
       /\ UNCHANGED <<appVars, pollVars, calcVars, validateVars, linkVars, switchVars, lixiVars, featVars, fetchVars>>
  \/ SleepEnds
       /\ UNCHANGED <<appVars, pollVars, calcVars, validateVars, linkVars, switchVars, lixiVars, featVars, fetchVars>>

SpecRetry == InitRetry /\ [][NextRetry]_vars

\* every invocation of fn settles and every sleep ends
SpecRetryFair == SpecRetry /\ WF_vars(NextRetry)

\* the polling App: calls of fetchData and instrument switches
InitFetch ==
  /\ AppInit
  /\ PollInit(<<>>)
  /\ CalcInit(<<>>, IntRat(0))
  /\ ValidateInit(Quote(FirstSymbol, Absent, Absent, Absent, Absent, Absent))
  /\ LinkInit
  /\ LixiInit(<<>>)
  /\ FeatInit(<<>>)
  /\ RetryIdle
  /\ \E app \in {"App", "part_005"} : FetchInit(app)

NextFetch ==
  \/ CallFetchData
       /\ UNCHANGED <<appVars, pollVars, calcVars, validateVars, linkVars, switchVars, lixiVars, featVars, retryVars>>
  \/ (\E s \in Symbols : handleSymbolChange(s))
       /\ UNCHANGED <<appVars, pollVars, calcVars, validateVars, linkVars, switchVars, lixiVars, featVars, retryVars>>
  \/ (\E run \in inFlight, offline \in BOOLEAN : RunResolves(run, offline))
       /\ UNCHANGED <<appVars, pollVars, calcVars, validateVars, linkVars, switchVars, lixiVars, featVars, retryVars>>
  \/ (\E run \in inFlight : RunRejects(run))
       /\ UNCHANGED <<appVars, pollVars, calcVars, validateVars, linkVars, switchVars, lixiVars, featVars, retryVars>>

SpecFetch == InitFetch /\ [][NextFetch]_vars

(* ------------------- properties of the streaming App ------------------- *)

\* the ticks of the windows ws (records with a field window), in order
RECURSIVE TicksOf(_)
TicksOf(ws) ==
  IF ws = <<>> THEN <<>> ELSE ws[1].window.ticks \o TicksOf(Tail(ws))

\* every tick the pipeline holds: those of the windows emitted since the
\* last reset, oldest window first, then those of the buffer
HeldTicks == TicksOf(emitted) \o tickBuffer

\* bid > 0, ask > 0, bid < ask and spread <= 0.25 * mid
WellFormed(t) ==
  /\ t.bid > 0 /\ t.ask > 0 /\ t.bid < t.ask
  /\ t.spread * SpreadFactor <= t.mid

\* C1: every tick in tickBuffer has bid > 0, ask > 0, bid < ask and
\* spread <= 0.25 * mid, synthetic ticks included.  The simulation timer
\* hands its mockTick to handleNewTick without validation, and a search that
\* found no price leaves currentPrice at 0: the mockTick then has
\* bid = -0.01 and mid = 0.
C1_BufferTicksWellFormed ==
  \A i \in 1..Len(tickBuffer) : WellFormed(tickBuffer[i])

\* sockets that are open
OpenConns == {c \in ConnIds : conns[c].state = "open"}

\* C2: at most one tick source is active at any time: the simulation timer
\* and a live connection never run together, and never two live
\* connections.  handleSaveToken calls startStream itself and, through the
\* stream effect, a second time while wsRef.current is still null.
C2_OneActiveSource ==
  Cardinality(OpenConns) + (IF simInterval THEN 1 ELSE 0) <= 1

\* C3: no window holds ticks of two different sources.  Nothing empties
\* tickBuffer when the source changes.
C3_WindowsOfOneSource ==
  \A i \in 1..Len(emitted) : ~emitted[i].mixed

\* C4: after an instrument switch no tick of the old instrument is
\* ingested: the quotes in tickBuffer, all ingested after the switch emptied
\* it, are quotes of the selected instrument (stated for the buffers that
\* hold socket quotes only).  The socket stays subscribed to, and its
\* onmessage keeps comparing with, the selectedSymbol of the render that
\* opened it.
C4_BufferOfSelectedSymbol ==
  Timer \notin bufSrcs => bufSyms \subseteq {selectedSymbol}

\* C6: no tick belongs to two windows, and every tick handed to ingest is in
\* exactly one place: one window, or the buffer.  (Ticks are told apart by
\* their arrival number; nothing is discarded between two resets.)
C6_EachTickInOnePlace ==
  /\ Len(HeldTicks) = arrivals
  /\ \A n \in 1..arrivals :
       Cardinality({i \in 1..Len(HeldTicks) : HeldTicks[i].seq = n}) = 1

C6_Witness ==
  /\ switches = 1 /\ Len(emitted) = 2 /\ Len(tickBuffer) = 0
  /\ arrivals = 2 * WindowSize

\* C7: windows come out in arrival order and so do the ticks inside each;
\* the window is emitted with the ingest of its last tick, so the buffer
\* holds exactly the ticks that arrived after it; windowHistory lists the
\* windows newest first.
C7_ArrivalOrder ==
  /\ \A i \in 1..Len(HeldTicks) : HeldTicks[i].seq = i
  /\ Len(HeldTicks) = arrivals
  /\ Len(windowHistory) = Len(emitted)
  /\ \A i \in 1..Len(emitted) :
       windowHistory[i] = emitted[Len(emitted) + 1 - i].window

C7_Witness ==
  /\ Len(windowHistory) = 2 /\ Len(tickBuffer) = 0
  /\ windowHistory[1].ticks[1].seq = WindowSize + 1
  /\ windowHistory[2].ticks[1].seq = 1

\* a step that ingests a tick
Ingests == arrivals' = arrivals + 1

\* the mean of the mid prices of ts, by cross-multiplication
IsMeanMid(m, ts) == m.den > 0 /\ m.num * Len(ts) = SumMid(ts) * m.den

\* C8: ingest appends the tick to the buffer; when that makes the buffer
\* windowSize long, and only then, one window is emitted from the whole
\* buffer, the buffer is emptied and lastProcessedMid becomes the window's
\* meanMid; the buffer is shorter than windowSize after every ingest.
C8_Ingest ==
  /\ [](Len(tickBuffer) < WindowSize)
  /\ [][Ingests =>
          IF Len(tickBuffer) + 1 = WindowSize
          THEN /\ Len(emitted') = Len(emitted) + 1
               /\ SubSeq(emitted', 1, Len(emitted)) = emitted
               /\ LET w == emitted'[Len(emitted')].window
                  IN  /\ Len(w.ticks) = WindowSize
                      /\ SubSeq(w.ticks, 1, Len(tickBuffer)) = tickBuffer
                      /\ w.ticks[WindowSize].seq = arrivals'
                      /\ IsMeanMid(w.meanMid, w.ticks)
                      /\ lastProcessedMid' = w.meanMid
                      /\ windowHistory'[1] = w
               /\ tickBuffer' = <<>>
          ELSE /\ Len(tickBuffer') = Len(tickBuffer) + 1
               /\ SubSeq(tickBuffer', 1, Len(tickBuffer)) = tickBuffer
               /\ tickBuffer'[Len(tickBuffer')].seq = arrivals'
               /\ UNCHANGED <<emitted, windowHistory, lastProcessedMid>>
       ]_vars

C8_Witness ==
  /\ Len(emitted) = 1 /\ Len(tickBuffer) = WindowSize - 1
  /\ lastProcessedMid = emitted[1].window.meanMid

\* C9: a window's ratio is meanMid / referenceMid, where referenceMid is
\* the meanMid of the window before it and, for the first window, the mid
\* of the window's first tick.  handleNewTick passes
\* lastProcessedMid || tick.mid, where tick is the tick that completed the
\* window, its last one.
C9_StreamReference ==
  \A i \in 1..Len(emitted) :
    LET w   == emitted[i].window
        ref == IF i > 1 THEN emitted[i - 1].window.meanMid
               ELSE IntRat(w.ticks[1].mid)
    IN  w.ratio = RatDiv(w.meanMid, ref)

ListedTransitions ==
  {<<"IDLE", "CONNECTING">>, <<"CONNECTING", "LIVE">>,
   <<"IDLE", "SIMULATING">>, <<"ERROR", "CONNECTING">>,
   <<"LIVE", "IDLE">>, <<"SIMULATING", "IDLE">>}
    \cup {<<a, "ERROR">> :
            a \in {"IDLE", "CONNECTING", "LIVE", "SIMULATING", "ERROR"}}

\* C13: the stream status only changes along IDLE->CONNECTING,
\* CONNECTING->LIVE, IDLE->SIMULATING, any->ERROR, ERROR->CONNECTING and
\* LIVE->IDLE or SIMULATING->IDLE; no other change (such as
\* SIMULATING->CONNECTING or LIVE->CONNECTING when a token is saved) occurs.
\* startStream sets CONNECTING whatever the status is.
C13_StatusTransitions ==
  [][streamingStatus' # streamingStatus =>
       <<streamingStatus, streamingStatus'>> \in ListedTransitions]_vars

\* an attempt of startStream whose socket failed to connect
Stranded == \E c \in ConnIds : conns[c].state = "failed"

\* C14: when the session handshake or the push connection of a startStream
\* fails, or does not complete within the connection timeout, the status
\* eventually becomes ERROR (stated for the socket that fails to connect,
\* and allowing for a later handleSaveToken that replaces the failed socket
\* first).  Only a rejected createStreamSession is caught; there is no
\* timeout and the socket has no onerror or onclose.
C14_FailureReported == Stranded ~> (streamingStatus = "ERROR" \/ ~Stranded)

\* C15: while the status is LIVE, a drop of the push connection moves the
\* status to ERROR.
C15_DropReported ==
  [][(/\ streamingStatus = "LIVE"
      /\ \E c \in ConnIds :
           conns[c].state = "open" /\ conns'[c].state = "dropped")
       => streamingStatus' = "ERROR"]_vars

\* C16: while the status is ERROR no tick is forwarded to the aggregator,
\* neither by a socket's onmessage nor by the simulation timer.  The catch
\* of one startStream sets ERROR while the socket of another attempt stays
\* open.
C16_NoTickWhileError ==
  [][Ingests => streamingStatus # "ERROR"]_vars

\* C17: switching the instrument while the buffer is partly filled throws
\* the buffered ticks away unscored: the switch leaves the buffer empty, the
\* reference midpoint reset and no window behind, and what the pipeline
\* holds afterwards are exactly the ticks ingested since, in the order of
\* their arrival.
C17_SwitchDiscards ==
  /\ [][selectedSymbol' # selectedSymbol =>
          /\ tickBuffer' = <<>>
          /\ lastProcessedMid' = IntRat(0)
          /\ windowHistory' = <<>> /\ emitted' = <<>>]_vars
  /\ [](/\ Len(HeldTicks) = arrivals
        /\ \A i \in 1..Len(HeldTicks) : HeldTicks[i].seq = i)

\* two buffered ticks were thrown away, and a window came out afterwards
C17_Witness ==
  /\ switches = 1 /\ discarded = 2
  /\ Len(emitted) = 1 /\ Len(tickBuffer) = 1

\* parseFloat of the field is NaN
Unparsed(f) == f.k \in {"text", "absent"}

\* a quote the validator answers with null
Refused(raw) ==
  \/ Unparsed(raw.bid) \/ Unparsed(raw.ask)
  \/ raw.bid.v <= 0 \/ raw.ask.v <= 0
  \/ raw.bid.v >= raw.ask.v
  \/ 8 * (raw.ask.v - raw.bid.v) > raw.ask.v + raw.bid.v

\* C18: a raw quote the validator rejects is dropped silently: its delivery
\* leaves tickBuffer, windowHistory, the reference midpoint and the stream
\* status (which would show an error) as they were.
C18_RejectedDropped ==
  [][(heard' # heard /\ heard'.raw.type = "quote" /\ Refused(heard'.raw))
       => UNCHANGED <<tickBuffer, windowHistory, lastProcessedMid,
                      streamingStatus, arrivals, emitted>>]_vars

\* a crossed quote of the subscribed instrument was the last delivery, with
\* two ticks in the buffer
C18_Witness ==
  /\ heard.raw.type = "quote" /\ Refused(heard.raw)
  /\ \E c \in OpenConns : heard.raw.symbol = conns[c].sym
  /\ Len(tickBuffer) = 2 /\ streamingStatus = "LIVE"

\* the n last emitted windows, the newest first
RECURSIVE LastEmitted(_, _)
LastEmitted(es, n) ==
  IF n = 0 \/ es = <<>> THEN <<>>
  ELSE <<es[Len(es)].window>> \o LastEmitted(SubSeq(es, 1, Len(es) - 1), n - 1)

C5_WindowsOfWindowSize ==
  /\ \A i \in 1..Len(emitted) : Len(emitted[i].window.ticks) = WindowSize
  /\ \A i \in 1..Len(pollWindowHistory) :
       Len(pollWindowHistory[i].ticks) = BatchWindowSize

\* C21: calculateWindowLabel is never evaluated on fewer than 2 ticks: every
\* window, of the streaming App or of the chunking of fetchData, was computed
\* from at least 2 ticks.
C21_NeverFewerThanTwo ==
  /\ \A i \in 1..Len(emitted) : Len(emitted[i].window.ticks) >= 2
  /\ \A i \in 1..Len(pollWindowHistory) : Len(pollWindowHistory[i].ticks) >= 2

(* ------------------ properties of calculateWindowLabel ----------------- *)

\* d / D > alpha for D >= 0, that is d * AlphaInv > D, without the product
Exceeds(d, D) == d > D \div AlphaInv

\* d / D = alpha for D > 0, that is d * AlphaInv = D
OnBand(d, D) == D > 0 /\ D % AlphaInv = 0 /\ d = D \div AlphaInv

\* C10: the label is UPWARDS exactly when ratio > 1 + alpha, DOWNWARDS
\* exactly when ratio < 1 - alpha, and STATIONARY otherwise, the two
\* boundaries included (alpha = 1e-5); a reference of 100 and a meanMid of
\* 100.01 give UPWARDS.  With ratio = N / D for the integers N = sum of the
\* mids * den(lastWindowMid) and D = length * num(lastWindowMid), made D >= 0.
C10_LabelBands ==
  calcResult.done =>
    LET sgn   == IF calcLastMid.num < 0 THEN -1 ELSE 1
        N     == sgn * SumMid(calcTicks) * calcLastMid.den
        D     == sgn * Len(calcTicks) * calcLastMid.num
        label == calcResult.window.label
        up    == IF D = 0 THEN N > 0 ELSE Exceeds(N - D, D)
        down  == IF D = 0 THEN N < 0 ELSE Exceeds(D - N, D)
    IN  /\ label = "UPWARDS" <=> up
        /\ label = "DOWNWARDS" <=> down
        /\ label = "STATIONARY" <=> ~up /\ ~down
        /\ OnBand(N - D, D) => label = "STATIONARY"
        /\ OnBand(D - N, D) => label = "STATIONARY"
        /\ calcLastMid = IntRat(20000)
             /\ SumMid(calcTicks) = 20002 * Len(calcTicks)
             => label = "UPWARDS"

\* ratio = 1 + alpha exactly: 500.005 against 500.00
C10_Witness ==
  /\ calcResult.done
  /\ calcLastMid = IntRat(100000)
  /\ \A i \in 1..Len(calcTicks) : calcTicks[i].mid = 100001
  /\ calcResult.window.ratio = [num |-> 100001, den |-> 100000]
  /\ calcResult.window.label = "STATIONARY"

(* ------------------ properties of cleanAndProcessTick ------------------ *)

\* the field is a number or a numeric string
Numeric(f) == f.k \in {"num", "str"}

\* C11: cleanAndProcessTick returns null exactly when bid or ask is
\* non-numeric or not positive, or bid >= ask, or spread > 0.25 * mid (that
\* is, 8 * (ask - bid) > ask + bid); for every other raw quote it returns a
\* Tick.  parseFloat accepts a string that only starts with a number.
C11_RejectsExactly ==
  verdict.done =>
    LET b == rawQuote.bid
        a == rawQuote.ask
    IN  verdict.tick.rejected <=>
          \/ ~Numeric(b) \/ ~Numeric(a)
          \/ b.v <= 0 \/ a.v <= 0
          \/ b.v >= a.v
          \/ 8 * (a.v - b.v) > a.v + b.v

\* C22: for every accepted quote bidVolume and askVolume are non-negative
\* integers, 0 when the size field is absent, and volume is their sum,
\* whatever the bidsize and asksize fields hold.
C22_VolumesNonNegative ==
  (verdict.done /\ ~verdict.tick.rejected) =>
    LET t == verdict.tick
    IN  /\ t.nans = {}
        /\ t.bidVolume >= 0 /\ t.askVolume >= 0
        /\ t.volume = t.bidVolume + t.askVolume
        /\ rawQuote.bidsize = Absent => t.bidVolume = 0
        /\ rawQuote.asksize = Absent => t.askVolume = 0

(* ----------------------- properties of the lixi ------------------------ *)

\* the score before any cap, as the variant that scored the window has it
Uncapped(by, ts) == IF by = "part_003" THEN Lixi(ts) ELSE LixiWeighted(ts)

\* C19: the lixi of every emitted window is at most the ceiling 15, and a
\* score computed above the ceiling is reported as exactly 15.
C19_LixiCeiling ==
  lixiWindow.by # "none" =>
    /\ lixiWindow.lixi <= LixiCeiling
    /\ Uncapped(lixiWindow.by, lixiTicks) > LixiCeiling
         => lixiWindow.lixi = LixiCeiling

(* --------------------- properties of the features ---------------------- *)

\* the sum of the mids less base, and of their squares
RECURSIVE SumOff(_, _)
SumOff(ts, base) ==
  IF ts = <<>> THEN 0 ELSE (ts[1].mid - base) + SumOff(Tail(ts), base)

RECURSIVE SumOffSquared(_, _)
SumOffSquared(ts, base) ==
  IF ts = <<>> THEN 0
  ELSE (ts[1].mid - base) * (ts[1].mid - base) + SumOffSquared(Tail(ts), base)

\* the window with mids 100, 101, 99, 100
FourTicks ==
  [n \in 1..4 |->
     MockTick(100 * Dollar + (CASE n = 2 -> Dollar [] n = 3 -> 0 - Dollar
                                   [] OTHER -> 0), n)]

\* C23: meanMid is the arithmetic mean of the mids (meanMid * n = their sum)
\* and the variance is the population one, the mean of the squares less the
\* square of the mean, (n * sum x^2 - (sum x)^2) / n^2 for x the mids less
\* the first; mids 100, 101, 99, 100 give meanMid 100, variance 0.5 and a
\* volatility of 0.7071.
C23_MeanAndPopulationVariance ==
  featWindow.by # "none" =>
    LET n    == Len(featTicks)
        base == featTicks[1].mid
        sum  == SumOff(featTicks, base)
        sq   == SumOffSquared(featTicks, base)
    IN  /\ featWindow.meanMid.den > 0
        /\ featWindow.meanMid.num * n = SumMid(featTicks) * featWindow.meanMid.den
        /\ featWindow.variance = Rat(n * sq - sum * sum, n * n)
        /\ featTicks = FourTicks =>
             /\ featWindow.meanMid = IntRat(100 * Dollar)
             /\ featWindow.variance = Rat(Dollar * Dollar, 2)
             /\ featWindow.v9 = 7071

\* the features of the window with mids 100, 101, 99, 100 were extracted
C23_Witness ==
  /\ featWindow.by = "part_003"
  /\ featTicks = FourTicks
  /\ featWindow.variance = Rat(Dollar * Dollar, 2)

C25_CrossingReturn ==
  featWindow.by # "none" =>
    LET first == featTicks[1]
        last  == featTicks[Len(featTicks)]
    IN  IF Len(featTicks) = 1
        THEN featWindow.v3 = IntRat(0) /\ featWindow.v11_22 = <<>>
        ELSE /\ featWindow.v3.den > 0
             /\ featWindow.v3.num * first.ask
                  = (last.bid - first.ask) * featWindow.v3.den

\* max(d, floor) for d >= 0 and floor > 0
MaxDec(d, floor) ==
  IF d = Zero THEN floor
  ELSE IF Log10(d) < Log10(floor) THEN floor ELSE d

\* the score with max(spread, 0.01) and max(intensity, 1), the weights being
\* wI and wA hundredths
LixiWithFloors(ts, wI, wA) ==
  (0 - Log10(MaxDec(AvgSpread(ts), Dec(1, -2))))
    + (wI * Log10(MaxDec(SumVolume(ts), Dec(1, 0)))) \div 100
    + (wA * Log10(advFactor)) \div 100

\* C26: the score takes its logarithms of max(spread, 0.01) and of
\* max(intensity, 1): a mean spread below 0.01, 0 or not, counts as 0.01 and
\* a summed volume below 1 as 1.
C26_LixiFloors ==
  /\ lixiWindow.by = "part_003"
       => lixiWindow.lixi = LixiWithFloors(lixiTicks, 50, 50)
  /\ lixiWindow.by = "tradierService"
       => lixiWindow.lixi = Capped(LixiWithFloors(lixiTicks, 65, 40))

(* ----------------------- properties of withRetry ----------------------- *)

\* the retries a caller that passes none gets
RetriesByDefault(by) ==
  IF by = "geminiService" THEN DefaultRetries ELSE QuotaRetries

\* C27: withRetry terminates and invokes the operation at most retries + 1
\* times (3 with the default of geminiService, 4 with that of part_001); no
\* invocation follows a successful one, whose result is the one returned.
C27_AtMostRetriesPlusOne ==
  /\ [](/\ Len(attempts) <= retryArg + 1
        /\ retryArg = RetriesByDefault(retryBy) =>
             Len(attempts) <= (IF retryBy = "geminiService" THEN 3 ELSE 4)
        /\ \A i \in 1..(Len(attempts) - 1) : ~attempts[i].ok
        /\ retryPc = "returned" <=>
             (attempts # <<>> /\ attempts[Len(attempts)].ok)
        /\ retryPc = "returned" => retryResult = <<attempts[Len(attempts)]>>)
  /\ <>(retryPc \in {"returned", "thrown"})

\* the third invocation succeeded after two quota errors, retries being 2
C27_Witness ==
  /\ retryBy = "geminiService" /\ retryArg = DefaultRetries
  /\ retryPc = "returned" /\ Len(attempts) = 3
  /\ \A i \in 1..2 : attempts[i].msg = {"429"}

\* the error's message contains 429, resource_exhausted or deadline, in
\* either case of the letters
NamedRetryable(e) ==
  ~e.ok /\ ToLowerCase(e.msg) \cap {"429", "resource_exhausted", "deadline"} # {}

\* the last invocation
LastAttempt == attempts[Len(attempts)]

NamedOrStatus(by, e) ==
  \/ NamedRetryable(e)
  \/ ~e.ok /\ by = "part_001" /\ e.status = "RESOURCE_EXHAUSTED"

C29_OneRunInFlight ==
  /\ Cardinality(inFlight) <= 1
  /\ inFlight # {} => fetchLock

\* C30: the market data and the window history never end up belonging to a
\* symbol other than the selected one: once no run is in flight, what a run
\* has written is of the selected symbol (a run started for the previous
\* symbol wrote nothing after the switch).
C30_DataOfSelectedSymbol ==
  inFlight = {} =>
    /\ lockMarketData # Null => lockMarketData = lockSelectedSymbol
    /\ lockHistoryOf # Null => lockHistoryOf = lockSelectedSymbol

====
